---- MODULE Spec2Model ----
(***************************************************************************)
(* Model of app.py, a Streamlit marketing dashboard.                       *)
(*                                                                         *)
(* The script is re-executed from top to bottom on every interaction:      *)
(*   load_data() (memoised by st.cache_data) -> st.stop() if it returned   *)
(*   None -> sidebar selectbox -> if/elif chain over the selected view ->  *)
(*   footer.                                                               *)
(*                                                                         *)
(* Spec        the script run: loading, the halt, the cache, the selector  *)
(* SpecRender  one view rendered over an arbitrary schema of its datasets  *)
(* SpecTopN    the two product bar charts over the rows of product_sales   *)
(* SpecGroup   the Sales by Category aggregation over product_sales rows   *)
(* SpecSession a sequence of view selections over the same loaded datasets *)
(***************************************************************************)
EXTENDS Integers, Sequences, FiniteSets, TLC

VARIABLES
    fs,            \* Dataset/<name>.csv on disk: "ok", "missing" or "malformed"
    cache,         \* the st.cache_data entry of load_data
    reads,         \* how many times the body of load_data has run
    attempted,     \* the sources pd.read_csv was called on in the last body run
    errorShown,    \* the source whose exception st.error reported, or "none"
    data,          \* module-level `data` of the last script run
    halted,        \* the last script run ended in st.stop()
    analysis_type, \* value of the sidebar selectbox in the last script run
    dispatched,    \* the view branch the last script run entered, or "none"
    runs,          \* script runs so far
    rView,         \* SpecRender: the view whose branch is executed
    rCols,         \* SpecRender: kind of each column the branch looks at
    rEmpty,        \* SpecRender: whether each dataset it reads has zero rows
    rOut,          \* SpecRender: what the branch handed to Streamlit, in order
    rRaised,       \* SpecRender: the exception that ended the run, or "none"
    rPhase,        \* SpecRender: "selected", then "rendered"
    tRows,         \* SpecTopN: the Sales column of product_sales, row by row
    tTop,          \* SpecTopN: rows of the Top 10 Products by Sales chart
    tHead,         \* SpecTopN: rows of the Overview's product bar chart
    tDone,         \* SpecTopN: which of the two charts have been built
    gRows,         \* SpecGroup: the rows of product_sales
    gGroups,       \* SpecGroup: category_sales, label -> summed Sales
    gDone,         \* SpecGroup: the Sales by Category frame has been built
    sContent,      \* SpecSession: the branches the last run entered, with output
    sFirstView,    \* SpecSession: the view of the session's first selection
    sFirstContent, \* SpecSession: what that first selection produced
    sPrevView,     \* SpecSession: the view of the run before the last one
    sCount         \* SpecSession: selections made so far

runVars == <<fs, cache, reads, attempted, errorShown, data, halted,
             analysis_type, dispatched, runs>>

renderVars == <<rView, rCols, rEmpty, rOut, rRaised, rPhase>>

topVars == <<tRows, tTop, tHead, tDone>>

groupVars == <<gRows, gGroups, gDone>>

sessionVars == <<sContent, sFirstView, sFirstContent, sPrevView, sCount>>

vars == <<runVars, renderVars, topVars, groupVars, sessionVars>>

\* Bound on the view selections of one session in SpecSession.
MaxSelections == 3

\* Bound on the rows of product_sales in SpecTopN.
MaxRows == 11

\* Bound on the rows of product_sales in SpecGroup.
MaxGroupRows == 3

\* Bound on the script runs of one session.
MaxRuns == 3

\* Bound on executions of the body of load_data.
MaxReads == 3

---------------------------------------------------------------------------
(* The dataset registry and the loader                                     *)

\* The 11 sources in the order load_data reads them.
Datasets ==
    << "campaign_performance", "channel_attribution", "correlation_matrix",
       "customer_data", "customer_journey", "feature_importance",
       "funnel_data", "geographic_data", "lead_scoring_results",
       "learning_curve", "product_sales" >>

DatasetNames == {Datasets[i] : i \in 1..Len(Datasets)}

\* The options of the sidebar selectbox, in order.
Views ==
    << "Overview", "Customer Analysis", "Campaign Performance",
       "Channel Attribution", "Product Sales", "Geographic Analysis",
       "Customer Journey", "Lead Scoring", "Feature Importance",
       "Correlation Analysis" >>

ViewNames == {Views[i] : i \in 1..Len(Views)}

SourceStates == {"ok", "missing", "malformed"}

\* pd.read_csv on one source: a DataFrame, or the exception it raises.
ReadCsv(st) ==
    CASE st = "ok"        -> "DataFrame"
      [] st = "missing"   -> "FileNotFoundError"
      [] st = "malformed" -> "ParserError"

\* Index of the first source whose read_csv raises, 0 if none does.
FirstFailure(f) ==
    LET bad == {i \in 1..Len(Datasets) : ReadCsv(f[Datasets[i]]) # "DataFrame"}
    IN  IF bad = {} THEN 0
        ELSE CHOOSE i \in bad : \A j \in bad : i <= j

NoneValue == [isNone |-> TRUE, keys |-> {}]

\* A loader that goes on after a failure and returns the readable sources.
LoadBodyContinue(f) ==
    [attempted |-> DatasetNames,
     value     |-> [isNone |-> FALSE,
                    keys   |-> {d \in DatasetNames : ReadCsv(f[d]) = "DataFrame"}],
     error     |-> IF FirstFailure(f) = 0 THEN "none"
                   ELSE Datasets[FirstFailure(f)]]

\* The body of load_data: one try block around the 11 reads in order; the
\* first exception leaves the block, is reported with st.error and the
\* function returns None; otherwise it returns the dict of all 11 frames.
LoadBody(f) ==
    LET k == FirstFailure(f)
    IN  [attempted |-> IF k = 0 THEN DatasetNames
                       ELSE {Datasets[i] : i \in 1..k},
         value     |-> IF k = 0 THEN [isNone |-> FALSE, keys |-> DatasetNames]
                       ELSE NoneValue,
         error     |-> IF k = 0 THEN "none" ELSE Datasets[k]]

\* A cache that never holds an entry.
CacheHitNever(c) == FALSE

\* st.cache_data: load_data takes no arguments, so one entry serves every
\* call once the body has returned (a returned None is an entry as well).
CacheHit(c) == c.filled

\* data = load_data(): the entry on a hit, the body's result on a miss.
LoadData ==
    IF CacheHit(cache)
    THEN [value |-> cache.value, miss |-> FALSE,
          attempted |-> attempted, error |-> errorShown]
    ELSE LET r == LoadBody(fs)
         IN  [value |-> r.value, miss |-> TRUE,
              attempted |-> r.attempted, error |-> r.error]

\* A script that never halts after the load.
ShouldStopNever(d) == FALSE

\* if data is None: st.stop()
ShouldStop(d) == d.isNone

\* The render variables while no view is being rendered.
RenderIdle ==
    /\ rView = "none"
    /\ rCols = << >>
    /\ rEmpty = << >>
    /\ rOut = << >>
    /\ rRaised = "none"
    /\ rPhase = "idle"

\* The chart variables while no product chart is being built.
ChartsIdle ==
    /\ tRows = << >>
    /\ tTop = << >>
    /\ tHead = << >>
    /\ tDone = {}
    /\ gRows = << >>
    /\ gGroups = << >>
    /\ gDone = FALSE

\* The session variables while no sequence of selections is followed.
SessionIdle ==
    /\ sContent = << >>
    /\ sFirstView = "none"
    /\ sFirstContent = << >>
    /\ sPrevView = "none"
    /\ sCount = 0

---------------------------------------------------------------------------
(* The script run                                                          *)

Init ==
    /\ fs \in [DatasetNames -> SourceStates]
    /\ cache = [filled |-> FALSE, value |-> NoneValue]
    /\ reads = 0
    /\ attempted = {}
    /\ errorShown = "none"
    /\ data = NoneValue
    /\ halted = FALSE
    /\ analysis_type = "none"
    /\ dispatched = "none"
    /\ runs = 0
    /\ RenderIdle
    /\ ChartsIdle
    /\ SessionIdle

\* The part of a script run every run shares: data = load_data().
Loaded(r) ==
    /\ runs < MaxRuns
    /\ r.miss => reads < MaxReads
    /\ runs' = runs + 1
    /\ reads' = IF r.miss THEN reads + 1 ELSE reads
    /\ cache' = [filled |-> TRUE, value |-> r.value]
    /\ attempted' = r.attempted
    /\ errorShown' = r.error
    /\ data' = r.value
    /\ UNCHANGED fs
    /\ UNCHANGED <<renderVars, topVars, groupVars, sessionVars>>

\* A script run that ends at st.stop(): the sidebar is never reached.
RunStop ==
    LET r == LoadData
    IN  /\ ShouldStop(r.value)
        /\ Loaded(r)
        /\ halted' = TRUE
        /\ dispatched' = "none"
        /\ UNCHANGED analysis_type

\* A script run that reaches the selectbox, whose value is one of its
\* options, and enters the branch of the if/elif chain that equals it.
RunRender(v) ==
    LET r == LoadData
    IN  /\ ~ShouldStop(r.value)
        /\ Loaded(r)
        /\ halted' = FALSE
        /\ analysis_type' = v
        /\ dispatched' = IF v \in ViewNames THEN v ELSE "none"

Next ==
    \/ RunStop
    \/ \E v \in ViewNames : RunRender(v)

Spec == Init /\ [][Next]_vars

---------------------------------------------------------------------------
(* Claims about the script run (checked under Spec)                        *)

BadIndices == {i \in 1..Len(Datasets) : fs[Datasets[i]] # "ok"}

ReadableSources == {d \in DatasetNames : fs[d] = "ok"}

\* C1 as stated: after a load every one of the 11 sources was attempted and
\* every readable source is returned as a Dataset, whatever else failed.
C1_EverySourceGetsAnOutcome ==
    runs > 0 =>
        /\ attempted = DatasetNames
        /\ ~data.isNone
        /\ data.keys = ReadableSources

\* C1 as amended: load_data reads the sources in declared order and stops at
\* the first one that fails; it returns all 11 Datasets when none fails, and
\* otherwise returns None, having attempted exactly the sources up to the
\* first failing one and reported only that failure.
C1_LoadStopsAtFirstFailure ==
    runs > 0 =>
        /\ BadIndices = {} =>
              /\ attempted = DatasetNames
              /\ data = [isNone |-> FALSE, keys |-> DatasetNames]
              /\ errorShown = "none"
        /\ BadIndices # {} =>
              \E k \in BadIndices :
                  /\ \A j \in BadIndices : k <= j
                  /\ attempted = {Datasets[i] : i \in 1..k}
                  /\ errorShown = Datasets[k]
                  /\ data.isNone
                  /\ data.keys = {}

\* One source deleted, the other ten readable: the load returned nothing and
\* never tried the sources after the deleted one.
C1_Witness ==
    /\ runs > 0
    /\ Cardinality(ReadableSources) = Len(Datasets) - 1
    /\ fs["customer_data"] = "missing"
    /\ data.isNone
    /\ "product_sales" \notin attempted

\* C2 as stated: the run halts exactly when none of the 11 sources loaded.
C2_HaltsIffNothingLoaded ==
    runs > 0 => (halted <=> ReadableSources = {})

\* C2 as amended: the run halts before the selector exactly when at least
\* one of the 11 sources failed to load; a view branch is entered exactly
\* when all 11 loaded, and it is the branch of the selected identifier.
C2_HaltsIffAnyFailed ==
    runs > 0 =>
        /\ halted <=> ReadableSources # DatasetNames
        /\ halted => dispatched = "none"
        /\ ~halted => (dispatched = analysis_type /\ dispatched \in ViewNames)

\* Ten of the eleven sources readable, and the run halted.
C2_Witness ==
    /\ runs > 0
    /\ Cardinality(ReadableSources) = Len(Datasets) - 1
    /\ halted
    /\ dispatched = "none"

\* C10: once load_data has returned, no later script run executes its body
\* again, and every later run gets the value the first run got.
C10_LoadedOnce ==
    /\ [](reads <= 1)
    /\ [][cache.filled =>
            /\ reads' = reads
            /\ cache' = cache
            /\ data' = cache.value]_vars

\* A third script run served from the cache after a single read.
C10_Witness ==
    /\ runs >= 3
    /\ reads = 1
    /\ cache.filled
    /\ data = cache.value
    /\ ~data.isNone

---------------------------------------------------------------------------
(* The view branches                                                       *)
(*                                                                         *)
(* A branch is the sequence of its Streamlit calls in source order.  Each  *)
(* call either hands an item to Streamlit, is skipped by its `if`, or      *)
(* raises; nothing in the script catches an exception after load_data, so  *)
(* a raise ends the run before the footer.                                 *)

Kinds == {"absent", "num", "text"}

RowCount(ds, label) ==
    [op |-> "len", ds |-> ds, label |-> label, alts |-> << >>,
     req |-> {}, xaxis |-> FALSE, topn |-> FALSE]

\* One arm of an if/elif chain: the column tested, the aggregate taken of
\* it, the format spec of the f-string and the metric's label.
Alt(col, agg, fmt, label) ==
    [col |-> col, agg |-> agg, fmt |-> fmt, label |-> label]

Metric(ds, alts) ==
    [op |-> "metric", ds |-> ds, label |-> "-", alts |-> alts,
     req |-> {}, xaxis |-> FALSE, topn |-> FALSE]

Chart(ds, kind, req, xaxis, topn) ==
    [op |-> "chart", ds |-> ds, label |-> kind, alts |-> << >>,
     req |-> req, xaxis |-> xaxis, topn |-> topn]

Table(ds) ==
    [op |-> "table", ds |-> ds, label |-> "-", alts |-> << >>,
     req |-> {}, xaxis |-> FALSE, topn |-> FALSE]

OverviewSteps ==
    << RowCount("customer_data", "Total Customers"),
       Metric("product_sales",
              << Alt("Revenue", "sum", ",.0f", "Total Revenue"),
                 Alt("Sales", "sum", ",.0f", "Total Sales") >>),
       RowCount("campaign_performance", "Total Campaigns"),
       Metric("funnel_data",
              << Alt("ConversionRate", "mean", ".2f", "Avg Conversion Rate"),
                 Alt("Conversions", "sum", ",", "Total Conversions") >>),
       Metric("lead_scoring_results",
              << Alt("LeadScore", "mean", ".2f", "Avg Lead Score") >>),
       Table("campaign_performance"),
       Table("customer_data"),
       Chart("product_sales", "bar", {"Product", "Sales"}, TRUE, FALSE),
       Chart("geographic_data", "pie", {"Region"}, FALSE, FALSE) >>

CustomerAnalysisSteps ==
    << RowCount("customer_data", "Total Customers"),
       Metric("customer_data", << Alt("Age", "mean", ".1f", "Average Age") >>),
       Metric("customer_data",
              << Alt("Income", "mean", ",.0f", "Avg Income") >>),
       Chart("customer_data", "histogram", {"Age"}, FALSE, FALSE),
       Chart("customer_data", "box", {"Income"}, FALSE, FALSE),
       Table("customer_data"),
       Table("customer_data") >>

CampaignPerformanceSteps ==
    << RowCount("campaign_performance", "Total Campaigns"),
       Metric("campaign_performance",
              << Alt("Budget", "sum", ",.0f", "Total Budget") >>),
       Metric("campaign_performance",
              << Alt("Conversions", "sum", ",", "Total Conversions") >>),
       Metric("campaign_performance",
              << Alt("ROI", "mean", ".2f", "Average ROI") >>),
       Chart("campaign_performance", "bar",
             {"CampaignName", "Conversions"}, TRUE, FALSE),
       Chart("campaign_performance", "scatter", {"Budget", "ROI"},
             FALSE, FALSE),
       Table("campaign_performance"),
       Table("campaign_performance") >>

ChannelAttributionSteps ==
    << Chart("channel_attribution", "bar", {"Channel", "Conversions"},
             FALSE, FALSE),
       Chart("channel_attribution", "pie", {"Channel", "Revenue"},
             FALSE, FALSE),
       Table("channel_attribution") >>

ProductSalesSteps ==
    << RowCount("product_sales", "Total Products"),
       Metric("product_sales",
              << Alt("Sales", "sum", ",.0f", "Total Sales") >>),
       Metric("product_sales",
              << Alt("Quantity", "sum", ",", "Total Units Sold") >>),
       Chart("product_sales", "bar", {"Product", "Sales"}, TRUE, TRUE),
       Chart("product_sales", "pie", {"Category", "Sales"}, FALSE, FALSE),
       Table("product_sales") >>

GeographicAnalysisSteps ==
    << Chart("geographic_data", "bar", {"Region"}, FALSE, FALSE),
       Chart("geographic_data", "pie", {"Country"}, FALSE, FALSE),
       Table("geographic_data") >>

CustomerJourneySteps ==
    << Chart("funnel_data", "funnel", {"Stage", "Count"}, FALSE, FALSE),
       Table("funnel_data"),
       Table("customer_journey") >>

LeadScoringSteps ==
    << Metric("lead_scoring_results",
              << Alt("LeadScore", "mean", ".2f", "Average Lead Score") >>),
       Metric("lead_scoring_results",
              << Alt("LeadScore", "max", ".2f", "Max Lead Score") >>),
       RowCount("lead_scoring_results", "Total Leads"),
       Chart("lead_scoring_results", "histogram", {"LeadScore"},
             FALSE, FALSE),
       Chart("lead_scoring_results", "box", {"LeadScore"}, FALSE, FALSE),
       Table("lead_scoring_results") >>

FeatureImportanceSteps ==
    << Chart("feature_importance", "bar", {"Feature", "Importance"},
             FALSE, FALSE),
       Table("feature_importance") >>

CorrelationAnalysisSteps ==
    << Chart("correlation_matrix", "heatmap", {}, FALSE, FALSE),
       Table("correlation_matrix") >>

\* The if/elif chain over analysis_type.  It has no else: an identifier
\* that equals none of the ten strings runs no branch at all.
ViewSteps(v) ==
    CASE v = "Overview"             -> OverviewSteps
      [] v = "Customer Analysis"    -> CustomerAnalysisSteps
      [] v = "Campaign Performance" -> CampaignPerformanceSteps
      [] v = "Channel Attribution"  -> ChannelAttributionSteps
      [] v = "Product Sales"        -> ProductSalesSteps
      [] v = "Geographic Analysis"  -> GeographicAnalysisSteps
      [] v = "Customer Journey"     -> CustomerJourneySteps
      [] v = "Lead Scoring"         -> LeadScoringSteps
      [] v = "Feature Importance"   -> FeatureImportanceSteps
      [] v = "Correlation Analysis" -> CorrelationAnalysisSteps
      [] OTHER                      -> << >>

\* The columns a step tests with `in ... .columns`.
StepCols(st) == st.req \cup {st.alts[i].col : i \in 1..Len(st.alts)}

\* The <<dataset, column>> pairs a branch looks at.  The Overview's schema
\* also carries product_sales.Amount, a column the branch never tests.
ViewCols(v) ==
    LET steps == ViewSteps(v)
    IN  UNION {{<<steps[i].ds, c>> : c \in StepCols(steps[i])} :
               i \in 1..Len(steps)}
        \cup (IF v = "Overview" THEN {<<"product_sales", "Amount">>} ELSE {})

ViewDatasets(v) == {p[1] : p \in ViewCols(v)}

\* `col in df.columns` for the aliases in order, keeping the last hit.
ResolveLast(present, aliases) ==
    LET hits == {i \in 1..Len(aliases) : aliases[i] \in present}
    IN  IF hits = {} THEN "unresolved"
        ELSE aliases[CHOOSE i \in hits : \A j \in hits : j <= i]

\* An if/elif chain of `col in df.columns` tests: the first alias, in the
\* order of the chain, that is a column name of the frame.
Resolve(present, aliases) ==
    LET hits == {i \in 1..Len(aliases) : aliases[i] \in present}
    IN  IF hits = {} THEN "unresolved"
        ELSE aliases[CHOOSE i \in hits : \A j \in hits : i <= j]

\* Series.sum(), .mean(), .max() by the kind of the column's values:
\* over zero rows sum is 0 and mean and max are NaN; over text sum
\* concatenates, max compares strings and mean raises TypeError.
Agg(agg, kind, empty) ==
    CASE empty /\ agg = "sum"         -> "num"
      [] empty /\ agg # "sum"         -> "nan"
      [] ~empty /\ kind = "num"       -> "num"
      [] ~empty /\ agg = "mean"       -> "TypeError"
      [] OTHER                        -> "str"

\* The f-string format specs used (",.0f", ".2f", ".1f", ","): a number is
\* formatted, NaN is formatted as "nan", a str raises ValueError.
Format(fmt, val) ==
    CASE val = "num" -> "num"
      [] val = "nan" -> "nan"
      [] OTHER       -> "ValueError"

NoItem ==
    [slot |-> 0, what |-> "-", label |-> "-", col |-> "-", binds |-> {},
     value |-> "-"]

Item(r) == [r |-> "item", item |-> r, exc |-> "none"]

Skip == [r |-> "skip", item |-> NoItem, exc |-> "none"]

Raise(exc) == [r |-> "raise", item |-> NoItem, exc |-> exc]

PresentCols(ds, cols) ==
    {p[2] : p \in {q \in DOMAIN cols : q[1] = ds /\ cols[q] # "absent"}}

\* st.metric(label, len(df)).
EvalRowCount(st, i) ==
    Item([slot |-> i, what |-> "metric", label |-> st.label, col |-> "-",
          binds |-> {}, value |-> "count"])

\* with colN: if c1 in columns: st.metric(l1, f"{df[c1].agg():fmt}")
\*            elif c2 in columns: ...      (no else)
EvalMetric(st, i, cols, empty) ==
    LET c == Resolve(PresentCols(st.ds, cols),
                     [j \in 1..Len(st.alts) |-> st.alts[j].col])
    IN  IF c = "unresolved" THEN Skip
        ELSE LET a == st.alts[CHOOSE j \in 1..Len(st.alts) : st.alts[j].col = c]
                 v == Agg(a.agg, cols[<<st.ds, c>>], empty[st.ds])
                 f == IF v = "TypeError" THEN v ELSE Format(a.fmt, v)
             IN  IF f \in {"TypeError", "ValueError"} THEN Raise(f)
                 ELSE Item([slot |-> i, what |-> "metric", label |-> a.label,
                            col |-> c, binds |-> {c}, value |-> f])

\* size='Conversions' if 'Conversions' in columns else None (the scatter).
OptionalCols(st) == IF st.label = "scatter" THEN {"Conversions"} ELSE {}

\* A chart drawn although a column it needs is missing.
ChartGuardAlways(st, present) == TRUE

\* if 'A' in df.columns and 'B' in df.columns:
ChartGuard(st, present) == st.req \subseteq present

\* The guarded chart block: build the figure, then st.plotly_chart(fig).
\* DataFrame.nlargest raises TypeError on an object column (text, or any
\* column of a zero-row frame); fig.update_xaxis is not a method of a
\* plotly Figure (the method is update_xaxes) and raises AttributeError
\* before st.plotly_chart is reached.
EvalChart(st, i, cols, empty) ==
    LET present == PresentCols(st.ds, cols)
    IN  IF ~ChartGuard(st, present) THEN Skip
        ELSE IF st.topn /\ (empty[st.ds] \/ cols[<<st.ds, "Sales">>] = "text")
             THEN Raise("TypeError")
        ELSE IF st.xaxis THEN Raise("AttributeError")
        ELSE Item([slot |-> i, what |-> "chart", label |-> st.label,
                   col |-> "-",
                   binds |-> st.req \cup (OptionalCols(st) \cap present),
                   value |-> "-"])

\* st.dataframe(df...).
EvalTable(st, i) ==
    Item([slot |-> i, what |-> "table", label |-> "-", col |-> "-",
          binds |-> {}, value |-> "-"])

EvalStep(st, i, cols, empty) ==
    CASE st.op = "len"    -> EvalRowCount(st, i)
      [] st.op = "metric" -> EvalMetric(st, i, cols, empty)
      [] st.op = "chart"  -> EvalChart(st, i, cols, empty)
      [] st.op = "table"  -> EvalTable(st, i)

RECURSIVE RunFrom(_, _, _, _, _)
\* The statements of a branch from the i-th on: the first raise ends the run.
RunFrom(steps, i, cols, empty, out) ==
    IF i > Len(steps) THEN [out |-> out, raised |-> "none"]
    ELSE LET e == EvalStep(steps[i], i, cols, empty)
         IN  IF e.r = "raise" THEN [out |-> out, raised |-> e.exc]
             ELSE RunFrom(steps, i + 1, cols, empty,
                          IF e.r = "item" THEN Append(out, e.item) ELSE out)

\* The selected branch, then the footer, which is an item like any other.
RenderBranch(v, cols, empty) ==
    LET b == RunFrom(ViewSteps(v), 1, cols, empty, << >>)
    IN  IF b.raised # "none" THEN b
        ELSE [out |-> Append(b.out,
                             [slot |-> Len(ViewSteps(v)) + 1, what |-> "footer",
                              label |-> "-", col |-> "-", binds |-> {},
                              value |-> "-"]),
              raised |-> "none"]

\* The loader's variables after a load of 11 readable sources.
AllLoaded ==
    /\ fs = [d \in DatasetNames |-> "ok"]
    /\ cache = [filled |-> TRUE,
                value |-> [isNone |-> FALSE, keys |-> DatasetNames]]
    /\ reads = 1
    /\ attempted = DatasetNames
    /\ errorShown = "none"
    /\ data = [isNone |-> FALSE, keys |-> DatasetNames]
    /\ halted = FALSE
    /\ dispatched = "none"
    /\ runs = 1

InitRender ==
    /\ AllLoaded
    /\ rView \in ViewNames
    /\ analysis_type = rView
    /\ rCols \in [ViewCols(rView) -> Kinds]
    /\ rEmpty \in [ViewDatasets(rView) -> BOOLEAN]
    /\ rOut = << >>
    /\ rRaised = "none"
    /\ rPhase = "selected"
    /\ ChartsIdle
    /\ SessionIdle

\* The script from the if/elif chain to its last line.
RenderView ==
    /\ rPhase = "selected"
    /\ LET b == RenderBranch(rView, rCols, rEmpty)
       IN  /\ rOut' = b.out
           /\ rRaised' = b.raised
    /\ rPhase' = "rendered"
    /\ dispatched' = rView
    /\ UNCHANGED <<fs, cache, reads, attempted, errorShown, data, halted,
                   analysis_type, runs, rView, rCols, rEmpty>>
    /\ UNCHANGED <<topVars, groupVars, sessionVars>>

NextRender == RenderView

SpecRender == InitRender /\ [][NextRender]_vars

---------------------------------------------------------------------------
(* Claims about the view branches (checked under SpecRender)               *)

Rendered == rPhase = "rendered"

RSteps == ViewSteps(rView)

RPresent(ds) == {p[2] : p \in {q \in DOMAIN rCols : q[1] = ds /\ rCols[q] # "absent"}}

OutAt(i) == {k \in 1..Len(rOut) : rOut[k].slot = i}

\* A column whose aggregate can be formatted: numbers, or no rows at all.
Formattable(ds, c) == rCols[<<ds, c>>] = "num" \/ rEmpty[ds]

\* C3 as stated: whatever the columns, value kinds and row counts of the
\* datasets, the selected branch runs to the footer without an exception.
C3_RenderReachesFooter ==
    Rendered =>
        /\ rRaised = "none"
        /\ \E k \in 1..Len(rOut) : rOut[k].what = "footer"

\* C4 as stated, on its example: with priority [Revenue, Sales, Total_Sales,
\* Amount] a product_sales with only the column Amount resolves to Amount
\* and the Overview's revenue metric is computed from it.
C4_AmountResolvesRevenue ==
    ( /\ Rendered
      /\ rView = "Overview"
      /\ RPresent("product_sales") = {"Amount"}
      /\ rCols[<<"product_sales", "Amount">>] = "num" )
    => \E k \in OutAt(2) : rOut[k].what = "metric" /\ rOut[k].col = "Amount"

\* C4 as amended: the Overview resolves revenue over [Revenue, Sales] and
\* conversion over [ConversionRate, Conversions], by exact name, the first
\* present alias winning and being the only one used; when neither alias of
\* revenue is a column (Amount or not) the field is unresolved and no
\* revenue metric is produced.
C4_FirstAliasInChainWins ==
    (Rendered /\ rView = "Overview") =>
        LET ps == RPresent("product_sales")
            fd == RPresent("funnel_data")
        IN  /\ ("Revenue" \in ps /\ Formattable("product_sales", "Revenue")) =>
                  \E k \in OutAt(2) : /\ rOut[k].col = "Revenue"
                                      /\ rOut[k].label = "Total Revenue"
            /\ ( /\ "Revenue" \notin ps
                 /\ "Sales" \in ps
                 /\ Formattable("product_sales", "Sales") ) =>
                  \E k \in OutAt(2) : /\ rOut[k].col = "Sales"
                                      /\ rOut[k].label = "Total Sales"
            /\ "Revenue" \in ps => \A k \in OutAt(2) : rOut[k].col = "Revenue"
            /\ ("Revenue" \notin ps /\ "Sales" \notin ps) => OutAt(2) = {}
            /\ "ConversionRate" \in fd =>
                  \A k \in OutAt(4) : rOut[k].col = "ConversionRate"
            /\ ("ConversionRate" \notin fd /\ "Conversions" \in fd) =>
                  \A k \in OutAt(4) : rOut[k].col = "Conversions"
            /\ ("ConversionRate" \notin fd /\ "Conversions" \notin fd) =>
                  OutAt(4) = {}

\* Revenue, Sales and Amount are all columns and the metric is Revenue's.
C4_Witness ==
    /\ Rendered
    /\ rView = "Overview"
    /\ {"Revenue", "Sales", "Amount"} \subseteq RPresent("product_sales")
    /\ \E k \in OutAt(2) : rOut[k].col = "Revenue" /\ rOut[k].value = "num"

ChartSlots == {i \in 1..Len(RSteps) : RSteps[i].op = "chart"}

Unbound(i) == ~(RSteps[i].req \subseteq RPresent(RSteps[i].ds))

\* C6 as stated: in a render that reaches the footer, every chart whose
\* required column is missing has a placeholder in its position.
C6_PlaceholderWhenUnresolved ==
    (Rendered /\ rRaised = "none") =>
        \A i \in ChartSlots :
            Unbound(i) => \E k \in OutAt(i) : rOut[k].what = "placeholder"

\* C6 as amended: a chart whose required column is missing is left out of
\* the output, nothing taking its position; no chart in the output is bound
\* to a column its dataset lacks.
C6_UnresolvedChartOmitted ==
    Rendered =>
        /\ \A i \in ChartSlots : Unbound(i) => OutAt(i) = {}
        /\ \A k \in 1..Len(rOut) :
              /\ rOut[k].what # "placeholder"
              /\ rOut[k].what = "chart" =>
                    rOut[k].binds \subseteq RPresent(RSteps[rOut[k].slot].ds)

\* Geographic Analysis with Region but no Country: the bar chart is shown,
\* the pie chart is missing and the footer is reached.
C6_Witness ==
    /\ Rendered
    /\ rView = "Geographic Analysis"
    /\ rRaised = "none"
    /\ RPresent("geographic_data") = {"Region"}
    /\ OutAt(1) # {}
    /\ OutAt(2) = {}

MeanLabels ==
    {"Avg Conversion Rate", "Avg Lead Score", "Average Age", "Avg Income",
     "Average ROI", "Average Lead Score"}

\* C7 as stated: a mean metric over a dataset of zero rows has the value
\* "unavailable", never NaN.
C7_MeanOfNoRowsUnavailable ==
    Rendered =>
        \A k \in 1..Len(rOut) :
            ( /\ rOut[k].what = "metric"
              /\ rOut[k].label \in MeanLabels
              /\ rEmpty[RSteps[rOut[k].slot].ds] )
            => rOut[k].value = "unavailable"

---------------------------------------------------------------------------
(* The two product bar charts: which rows of product_sales they are built  *)
(* from.  A frame is its Sales column, a chart's rows are row positions.   *)

\* nlargest(10, 'Sales') in the Product Sales branch.
TopN == 10

\* head(10) in the Overview branch.
HeadN == 10

SalesValues == {1, 2}

Min2(a, b) == IF a <= b THEN a ELSE b

RECURSIVE SelectDescLast(_, _, _)
\* A selection that prefers the later of two rows with equal Sales.
SelectDescLast(rows, remaining, n) ==
    IF n = 0 \/ remaining = {} THEN << >>
    ELSE LET b == CHOOSE i \in remaining :
                      \A j \in remaining :
                          \/ rows[i] > rows[j]
                          \/ (rows[i] = rows[j] /\ i >= j)
         IN  <<b>> \o SelectDescLast(rows, remaining \ {b}, n - 1)

NLargestKeepLast(rows, n) == SelectDescLast(rows, 1..Len(rows), n)

RECURSIVE SelectDesc(_, _, _)
\* The next row is the one with the largest Sales among those left, the
\* earliest of them when several are equal (keep='first').
SelectDesc(rows, remaining, n) ==
    IF n = 0 \/ remaining = {} THEN << >>
    ELSE LET b == CHOOSE i \in remaining :
                      \A j \in remaining :
                          \/ rows[i] > rows[j]
                          \/ (rows[i] = rows[j] /\ i <= j)
         IN  <<b>> \o SelectDesc(rows, remaining \ {b}, n - 1)

\* DataFrame.nlargest(n, 'Sales') over a numeric column.
NLargest(rows, n) == SelectDesc(rows, 1..Len(rows), n)

\* DataFrame.head(n): the first n rows as they stand.
HeadRows(rows, n) == [k \in 1..Min2(n, Len(rows)) |-> k]

InitTopN ==
    /\ AllLoaded
    /\ analysis_type = "none"
    /\ RenderIdle
    /\ \E n \in 0..MaxRows : tRows \in [1..n -> SalesValues]
    /\ tTop = << >>
    /\ tHead = << >>
    /\ tDone = {}
    /\ gRows = << >>
    /\ gGroups = << >>
    /\ gDone = FALSE
    /\ SessionIdle

\* Product Sales branch: top_products = data['product_sales'].nlargest(10, 'Sales')
TopProductsChart ==
    /\ tTop' = NLargest(tRows, TopN)
    /\ tDone' = tDone \cup {"top"}
    /\ analysis_type' = "Product Sales"
    /\ UNCHANGED <<fs, cache, reads, attempted, errorShown, data, halted,
                   dispatched, runs, tRows, tHead>>
    /\ UNCHANGED <<renderVars, groupVars, sessionVars>>

\* Overview branch: px.bar(data['product_sales'].head(10), ...)
OverviewProductChart ==
    /\ tHead' = HeadRows(tRows, HeadN)
    /\ tDone' = tDone \cup {"head"}
    /\ analysis_type' = "Overview"
    /\ UNCHANGED <<fs, cache, reads, attempted, errorShown, data, halted,
                   dispatched, runs, tRows, tTop>>
    /\ UNCHANGED <<renderVars, groupVars, sessionVars>>

NextTopN ==
    \/ TopProductsChart
    \/ OverviewProductChart

SpecTopN == InitTopN /\ [][NextTopN]_vars

\* sel holds the min(n, rows) rows of largest Sales, largest first, rows of
\* equal Sales in their original order.
IsTopSelection(rows, sel, n) ==
    LET chosen == {sel[k] : k \in 1..Len(sel)}
    IN  /\ Len(sel) = Min2(n, Len(rows))
        /\ chosen \subseteq 1..Len(rows)
        /\ Cardinality(chosen) = Len(sel)
        /\ \A a, b \in 1..Len(sel) :
              a < b => \/ rows[sel[a]] > rows[sel[b]]
                       \/ (rows[sel[a]] = rows[sel[b]] /\ sel[a] < sel[b])
        /\ \A i \in chosen : \A j \in (1..Len(rows)) \ chosen :
              \/ rows[i] > rows[j]
              \/ (rows[i] = rows[j] /\ i < j)

---------------------------------------------------------------------------
(* Sales by Category: groupby('Category')['Sales'].sum().reset_index()     *)
(*                                                                         *)
(* A Sales cell is <<v>>, or << >> when the value is missing (NaN); the    *)
(* Category label "" stands for a missing label (an empty CSV cell).       *)

CategoryLabels == {"A", "B", ""}

SalesCells == {<< >>, <<5>>, <<7>>, <<10>>}

\* A missing measure adds nothing to a sum (skipna).
CellValue(c) == IF c = << >> THEN 0 ELSE c[1]

RECURSIVE SumSales(_, _)
\* Sum of the Sales cells of the rows at the positions in idx.
SumSales(rows, idx) ==
    IF idx = {} THEN 0
    ELSE LET i == CHOOSE k \in idx : TRUE
         IN  CellValue(rows[i].Sales) + SumSales(rows, idx \ {i})

RowsOf(rows, label) == {i \in 1..Len(rows) : rows[i].Category = label}

\* A grouping that keeps the rows without a label as a group of their own.
GroupBySumKeepMissing(rows) ==
    LET labels == {rows[i].Category : i \in 1..Len(rows)}
    IN  [l \in labels |-> SumSales(rows, RowsOf(rows, l))]

\* DataFrame.groupby('Category')['Sales'].sum(): one group per distinct
\* label; rows whose label is missing are dropped (dropna=True is the
\* default); a group's value is the sum of its rows' Sales.
GroupBySum(rows) ==
    LET labels == {rows[i].Category : i \in 1..Len(rows)} \ {""}
    IN  [l \in labels |-> SumSales(rows, RowsOf(rows, l))]

InitGroup ==
    /\ AllLoaded
    /\ analysis_type = "Product Sales"
    /\ RenderIdle
    /\ tRows = << >>
    /\ tTop = << >>
    /\ tHead = << >>
    /\ tDone = {}
    /\ \E n \in 0..MaxGroupRows :
          gRows \in [1..n -> [Category : CategoryLabels, Sales : SalesCells]]
    /\ gGroups = << >>
    /\ gDone = FALSE
    /\ SessionIdle

\* Product Sales branch, with Category and Sales both columns:
\* category_sales = data['product_sales'].groupby('Category')['Sales'].sum()
SalesByCategoryChart ==
    /\ ~gDone
    /\ gGroups' = GroupBySum(gRows)
    /\ gDone' = TRUE
    /\ UNCHANGED <<runVars, renderVars, topVars, gRows, sessionVars>>

NextGroup == SalesByCategoryChart

SpecGroup == InitGroup /\ [][NextGroup]_vars

RECURSIVE SumGroups(_, _)
SumGroups(g, labels) ==
    IF labels = {} THEN 0
    ELSE LET l == CHOOSE x \in labels : TRUE
         IN  g[l] + SumGroups(g, labels \ {l})

AllRows == 1..Len(gRows)

\* C9 as stated: every row of the dataset is counted in exactly one group,
\* so the group values sum to the total of the Sales column.
C9_GroupsSumToColumnTotal ==
    gDone =>
        /\ \A i \in AllRows : gRows[i].Category \in DOMAIN gGroups
        /\ SumGroups(gGroups, DOMAIN gGroups) = SumSales(gRows, AllRows)

\* C9 as amended: there is exactly one group per distinct category label
\* that is not missing; its value is the sum of Sales over all rows with
\* that label, a missing Sales contributing 0; a row whose label is missing
\* is in no group, so the group values sum to the total of Sales over the
\* rows that have a label.
C9_GroupsSumOverLabelledRows ==
    gDone =>
        LET labelled == {i \in AllRows : gRows[i].Category # ""}
        IN  /\ DOMAIN gGroups = {gRows[i].Category : i \in labelled}
            /\ \A l \in DOMAIN gGroups :
                  gGroups[l] = SumSales(gRows, {i \in labelled :
                                                  gRows[i].Category = l})
            /\ SumGroups(gGroups, DOMAIN gGroups) = SumSales(gRows, labelled)

\* Rows (A,10), (A,missing) and one of Sales 5 without a label: A is 10
\* and the unlabelled row is in no group.
C9_Witness ==
    /\ gDone
    /\ Len(gRows) = 3
    /\ gRows[1] = [Category |-> "A", Sales |-> <<10>>]
    /\ gRows[2] = [Category |-> "A", Sales |-> << >>]
    /\ gRows[3] = [Category |-> "", Sales |-> <<5>>]
    /\ DOMAIN gGroups = {"A"}
    /\ gGroups["A"] = 10

---------------------------------------------------------------------------
(* A session: the script re-executed once per view selection, every run    *)
(* served by the cache entry of the first.                                 *)

Profiles == {"num", "text", "bare"}

AllCols == UNION {ViewCols(v) : v \in ViewNames}

\* The schema of a session: every column the branches test is numeric, is
\* text, or is missing from its dataset.
ProfileCols(p) == [q \in AllCols |-> IF p = "bare" THEN "absent" ELSE p]

\* A dispatch that also enters the branch of the previous run's view.
BranchesEnteredWithPrevious(v) ==
    IF rView \in ViewNames /\ rView # v THEN <<rView, v>> ELSE <<v>>

\* if analysis_type == "Overview": ... elif analysis_type == ...: the ten
\* tests compare the selectbox value of this run with ten distinct
\* strings, so the one branch entered is the one that equals it.
BranchesEntered(v) ==
    IF v \in ViewNames THEN <<v>> ELSE << >>

\* One script run after the load: the branches entered, each with what it
\* handed to Streamlit.  The page of a run holds only what that run emits,
\* and no branch assigns to `data` or to a frame in it.
RunContent(v, cols, empty) ==
    LET bs == BranchesEntered(v)
    IN  [k \in 1..Len(bs) |->
            [view |-> bs[k], r |-> RenderBranch(bs[k], cols, empty)]]

InitSession ==
    /\ AllLoaded
    /\ analysis_type = "none"
    /\ rView = "none"
    /\ \E p \in Profiles : rCols = ProfileCols(p)
    /\ \E e \in BOOLEAN : rEmpty = [d \in {q[1] : q \in AllCols} |-> e]
    /\ rOut = << >>
    /\ rRaised = "none"
    /\ rPhase = "idle"
    /\ ChartsIdle
    /\ SessionIdle

\* The user picks v in the selectbox; the script runs again from the top:
\* load_data() is a cache hit, the chain is evaluated for v, then the footer.
SelectView(v) ==
    /\ sCount < MaxSelections
    /\ CacheHit(cache)
    /\ ~ShouldStop(cache.value)
    /\ LET c == RunContent(v, rCols, rEmpty)
       IN  /\ sContent' = c
           /\ rOut' = IF c = << >> THEN << >> ELSE c[Len(c)].r.out
           /\ rRaised' = IF c = << >> THEN "none" ELSE c[Len(c)].r.raised
           /\ sFirstContent' = IF sCount = 0 THEN c ELSE sFirstContent
    /\ sFirstView' = IF sCount = 0 THEN v ELSE sFirstView
    /\ sPrevView' = rView
    /\ sCount' = sCount + 1
    /\ rView' = v
    /\ rPhase' = "rendered"
    /\ analysis_type' = v
    /\ dispatched' = v
    /\ data' = cache.value
    /\ halted' = FALSE
    /\ runs' = runs + 1
    /\ UNCHANGED <<fs, cache, reads, attempted, errorShown, rCols, rEmpty>>
    /\ UNCHANGED <<topVars, groupVars>>

NextSession == \E v \in ViewNames : SelectView(v)

SpecSession == InitSession /\ [][NextSession]_vars

\* The item a step of a branch can emit: a metric for a row count or an
\* aggregate, a chart, or a table.
ItemOfStep(view, it) ==
    LET steps == ViewSteps(view)
    IN  IF it.slot = Len(steps) + 1 THEN it.what = "footer"
        ELSE /\ it.slot \in 1..Len(steps)
             /\ LET st == steps[it.slot]
                IN  CASE st.op = "len"    -> it.what = "metric" /\ it.label = st.label
                      [] st.op = "metric" ->
                             /\ it.what = "metric"
                             /\ \E j \in 1..Len(st.alts) :
                                    it.label = st.alts[j].label
                      [] st.op = "chart"  -> it.what = "chart" /\ it.label = st.label
                      [] st.op = "table"  -> it.what = "table"

\* C11: after any sequence of selections the run's content is that of one
\* branch, the branch of the view now selected; every item in it is an item
\* of that view's own steps, in step order; when the view is the one the
\* session selected first, the content equals what it produced then; and
\* the loaded datasets are those of the first run.
C11_OnlyTheSelectedView ==
    sCount > 0 =>
        /\ Len(sContent) = 1
        /\ sContent[1].view = rView
        /\ rView = analysis_type
        /\ LET out == sContent[1].r.out
           IN  /\ \A k \in 1..Len(out) : ItemOfStep(rView, out[k])
               /\ \A a, b \in 1..Len(out) : a < b => out[a].slot < out[b].slot
        /\ rView = sFirstView => sContent = sFirstContent
        /\ data = [isNone |-> FALSE, keys |-> DatasetNames]
        /\ reads = 1

\* Customer Analysis selected first, then Lead Scoring, then Customer
\* Analysis again, over numeric columns: the third run shows the metrics of
\* Customer Analysis as the first did and reaches the footer.
C11_Witness ==
    /\ sCount = 3
    /\ sFirstView = "Customer Analysis"
    /\ sPrevView = "Lead Scoring"
    /\ rView = "Customer Analysis"
    /\ rCols[<<"customer_data", "Age">>] = "num"
    /\ rRaised = "none"
    /\ \E k \in 1..Len(rOut) : rOut[k].label = "Average Age"
    /\ sContent = sFirstContent

====
